---- MODULE Spec2Model ----
(***************************************************************************)
(* Registration of x-resources into an AWS CloudMap namespace              *)
(* (ecs_composex/cloudmap/cloudmap_x_resources.py).                        *)
(*                                                                         *)
(* Python values are modelled as follows.                                  *)
(*   str            a sequence of one-character strings, so that           *)
(*                  startswith, "in" and f-string concatenation are        *)
(*                  computed and not assumed;                              *)
(*   dict (input)   a sequence of <<key, value>> pairs in insertion order  *)
(*                  when the code iterates over it, a function when the    *)
(*                  code only indexes it;                                  *)
(*   dict (built)   a function from keys to values;                        *)
(*   None           the empty sequence (falsy, like None);                 *)
(*   object         a record of its attributes.                            *)
(***************************************************************************)
EXTENDS Integers, Sequences, FiniteSets, TLC

(***************************************************************************)
(* Bounds                                                                  *)
(***************************************************************************)
\* greatest number of entries of a ReturnValues block
MaxReturnValues == 2

(***************************************************************************)
(* String literals of the source                                           *)
(***************************************************************************)
None == <<>>

STR_Service == <<"S","e","r","v","i","c","e">>
STR_Instance == <<"I","n","s","t","a","n","c","e">>
STR_AWS_ == <<"A","W","S","_">>
STR_AWS_INSTANCE_CNAME ==
  <<"A","W","S","_","I","N","S","T","A","N","C","E","_","C","N","A","M","E">>
STR_Dot == <<".">>
STR_DuplicateKey == <<"d","u","p","l","i","c","a","t","e"," ","k","e","y"," ","\"">>
STR_Detected == <<"\""," ","d","e","t","e","c","t","e","d">>
STR_ReturnValue == <<" ","-"," ","R","e","t","u","r","n","V","a","l","u","e"," ">>
STR_NotFound ==
  <<" ","n","o","t"," ","f","o","u","n","d","."," ","A","v","a","i","l","a","b","l","e">>
STR_NoDnsSupport ==
  <<" ","d","o","e","s"," ","n","o","t"," ","s","u","p","p","o","r","t"," ",
    "D","n","s","S","e","t","t","i","n","g","s"," ","f","o","r"," ",
    "x","-","c","l","o","u","d","m","a","p",".">>

\* cloudmap_params.PRIVATE_NAMESPACE_ID, the key of the namespace id output
PRIVATE_NAMESPACE_ID == "PrivateNamespaceId"

(***************************************************************************)
(* Python primitives                                                       *)
(***************************************************************************)
\* {} and dict item assignment d[k] = v
EmptyDict == <<>>

DictSet(d, k, v) == (k :> v) @@ d

\* del d[k]
DictDel(d, k) == [x \in DOMAIN d \ {k} |-> d[x]]

\* truth value of a str, a dict, a list, None or an object
bool(v) == DOMAIN v # {}

\* compose_x_common.keyisset: the key is in the dict and its value is truthy.
\* ForceRegister is the one boolean-valued key of the settings block.
keyisset(key, y) ==
  /\ key \in DOMAIN y
  /\ IF key = "ForceRegister" THEN y[key] = TRUE ELSE bool(y[key])

\* str.startswith
startswith(s, prefix) ==
  /\ Len(s) >= Len(prefix)
  /\ SubSeq(s, 1, Len(prefix)) = prefix

\* the str operator "sub in s"
contains(s, sub) ==
  \E i \in 0..(Len(s) - Len(sub)) : SubSeq(s, i + 1, i + Len(sub)) = sub

\* keys of an insertion-ordered dict, in order
Keys(items) == [i \in 1..Len(items) |-> items[i][1]]

\* d[k] on an insertion-ordered dict holding k
Lookup(items, k) ==
  items[CHOOSE i \in 1..Len(items) : items[i][1] = k][2]

\* troposphere.Ref of an object that has a title
Ref(obj) == [Ref |-> obj.title]

(***************************************************************************)
(* Collaborators: ecs_composex.common and troposphere.Template             *)
(***************************************************************************)
\* dict.update(other)
DictUpdate(d, other) == other @@ d

\* ecs_composex.common.add_parameters: declare on the template each parameter
\* whose title is not declared yet
RECURSIVE add_parameters(_, _)
add_parameters(template, parameters) ==
  IF parameters = <<>> THEN template
  ELSE
    LET param == Head(parameters) IN
    add_parameters(
      IF param.title \notin DOMAIN template.parameters
      THEN [template EXCEPT !.parameters = DictSet(@, param.title, param)]
      ELSE template,
      Tail(parameters))

\* ecs_composex.common.add_update_mapping: add the mapping under its key, or
\* update the one already there
add_update_mapping(template, mapping_key, mapping_value) ==
  [template EXCEPT !.mappings =
     IF mapping_key \notin DOMAIN @
     THEN DictSet(@, mapping_key, mapping_value)
     ELSE DictSet(@, mapping_key, DictUpdate(@[mapping_key], mapping_value))]

\* troposphere.Template.add_resource: a title already in use raises
\* ValueError('duplicate key "<title>" detected') and leaves the template as
\* it was
add_resource(template, resource) ==
  IF resource.title \in DOMAIN template.resources
  THEN [template |-> template,
        raised |-> [type |-> "ValueError",
                    args |-> <<STR_DuplicateKey \o resource.title \o STR_Detected>>]]
  ELSE [template |-> [template EXCEPT !.resources = DictSet(@, resource.title, resource)],
        raised |-> None]

\* troposphere objects: Service(title, **props), Instance(title, **props),
\* DnsRecord(**props), DnsConfig(**props); the keyword arguments are copied
\* into the properties of the new object, each value being the very object
\* that was passed (a dict passed as a value is shared, not copied)
Service(title, props) ==
  [title |-> title, resource_type |-> "AWS::ServiceDiscovery::Service",
   properties |-> props]

Instance(title, props) ==
  [title |-> title, resource_type |-> "AWS::ServiceDiscovery::Instance",
   properties |-> props]

\* setattr(obj, name, value) on a troposphere object sets the property
setattr(obj, name, value) ==
  [obj EXCEPT !.properties = DictSet(@, name, value)]

\* troposphere.NoValue, Ref("AWS::NoValue")
NoValue == [Ref |-> <<"A","W","S",":",":","N","o","V","a","l","u","e">>]

(***************************************************************************)
(* process_return_values                                                   *)
(***************************************************************************)

\* variant: the return value of the parameter is not looked at
attribute_param_matches_title(attribute_param, key) ==
  attribute_param.title = key

\* the test of lines 95-97 on one key of resource.attributes_outputs
attribute_param_matches(attribute_param, key) ==
  \/ attribute_param.title = key
  \/ /\ bool(attribute_param.return_value)
     /\ attribute_param.return_value = key

\* the inner for/else loop: the first output parameter that matches, or None
\* when the loop ends without a break
find_attribute_param(resource, key) ==
  LET params == Keys(resource.attributes_outputs)
      hits == {i \in 1..Len(params) : attribute_param_matches(params[i], key)}
  IN  IF hits = {} THEN None
      ELSE params[CHOOSE i \in hits : \A j \in hits : i <= j]

\* the KeyError of lines 100-103
ReturnValueKeyError(resource, key) ==
  [type |-> "KeyError",
   args |-> <<resource.module_name \o STR_Dot \o resource.name
                \o STR_ReturnValue \o key \o STR_NotFound,
              [i \in 1..Len(resource.attributes_outputs) |->
                 resource.attributes_outputs[i][1].title]>>]


\* variant: the stack input of the import parameter is not recorded
process_return_value_no_input(namespace, resource, key, value, instance_props, settings) ==
  LET attribute_param == find_attribute_param(resource, key) IN
  IF ~bool(attribute_param)
  THEN [namespace |-> namespace, instance_props |-> instance_props,
        raised |-> ReturnValueKeyError(resource, key)]
  ELSE
    LET attribute_pointer == Lookup(resource.attributes_outputs, attribute_param) IN
    IF bool(resource.cfn_resource)
    THEN [namespace |->
            [namespace EXCEPT
               !.stack.stack_template =
                  add_parameters(@, <<attribute_pointer.ImportParameter>>)],
          instance_props |->
            [instance_props EXCEPT !.InstanceAttributes =
               DictSet(@, key, Ref(attribute_pointer.ImportParameter))],
          raised |-> None]
    ELSE [namespace |->
            [namespace EXCEPT
               !.stack.stack_template =
                  add_update_mapping(@, resource.mapping_key,
                                     settings.mappings[resource.mapping_key])],
          instance_props |->
            [instance_props EXCEPT !.InstanceAttributes =
               DictSet(@, value, attribute_pointer.ImportValue)],
          raised |-> None]

\* one iteration of the outer loop, lines 94-127
process_return_value(namespace, resource, key, value, instance_props, settings) ==
  LET attribute_param == find_attribute_param(resource, key) IN
  IF ~bool(attribute_param)
  THEN [namespace |-> namespace, instance_props |-> instance_props,
        raised |-> ReturnValueKeyError(resource, key)]
  ELSE
    LET attribute_pointer == Lookup(resource.attributes_outputs, attribute_param) IN
    IF bool(resource.cfn_resource)
    THEN [namespace |->
            [namespace EXCEPT
               !.stack.stack_template =
                  add_parameters(@, <<attribute_pointer.ImportParameter>>),
               !.stack.Parameters =
                  DictSet(@, attribute_pointer.ImportParameter.title,
                          attribute_pointer.ImportValue)],
          instance_props |->
            [instance_props EXCEPT !.InstanceAttributes =
               DictSet(@, key, Ref(attribute_pointer.ImportParameter))],
          raised |-> None]
    ELSE [namespace |->
            [namespace EXCEPT
               !.stack.stack_template =
                  add_update_mapping(@, resource.mapping_key,
                                     settings.mappings[resource.mapping_key])],
          instance_props |->
            [instance_props EXCEPT !.InstanceAttributes =
               DictSet(@, value, attribute_pointer.ImportValue)],
          raised |-> None]


\* variant: every key is matched before any entry is resolved
process_return_values_checked_first(namespace, resource, return_values, instance_props, settings) ==
  LET missing == {i \in 1..Len(return_values) :
                    ~bool(find_attribute_param(resource, return_values[i][1]))}
      RECURSIVE resolve(_, _, _)
      resolve(ns, entries, props) ==
        IF entries = <<>>
        THEN [namespace |-> ns, instance_props |-> props, raised |-> None]
        ELSE LET step == process_return_value(ns, resource, Head(entries)[1],
                                              Head(entries)[2], props, settings)
             IN  resolve(step.namespace, Tail(entries), step.instance_props)
  IN  IF missing # {}
      THEN [namespace |-> namespace, instance_props |-> instance_props,
            raised |-> ReturnValueKeyError(
                         resource,
                         return_values[CHOOSE i \in missing :
                                         \A j \in missing : i <= j][1])]
      ELSE resolve(namespace, return_values, instance_props)

\* the outer loop over return_values.items(); it stops at the first raise
RECURSIVE process_return_values(_, _, _, _, _)
process_return_values(namespace, resource, return_values, instance_props, settings) ==
  IF return_values = <<>>
  THEN [namespace |-> namespace, instance_props |-> instance_props, raised |-> None]
  ELSE
    LET step == process_return_value(namespace, resource, Head(return_values)[1],
                                     Head(return_values)[2], instance_props, settings)
    IN  IF bool(step.raised) THEN step
        ELSE process_return_values(step.namespace, resource, Tail(return_values),
                                   step.instance_props, settings)

(***************************************************************************)
(* process_additional_attributes                                           *)
(***************************************************************************)

\* variant: the keys that start with AWS_ are copied like the others
RECURSIVE process_additional_attributes_unfiltered(_, _)
process_additional_attributes_unfiltered(additional_attributes, instance_props) ==
  IF additional_attributes = <<>> THEN instance_props
  ELSE
    process_additional_attributes_unfiltered(
      Tail(additional_attributes),
      [instance_props EXCEPT !.InstanceAttributes =
         DictSet(@, Head(additional_attributes)[1], Head(additional_attributes)[2])])

RECURSIVE process_additional_attributes(_, _)
process_additional_attributes(additional_attributes, instance_props) ==
  IF additional_attributes = <<>> THEN instance_props
  ELSE
    LET key == Head(additional_attributes)[1]
        value == Head(additional_attributes)[2]
    IN  process_additional_attributes(
          Tail(additional_attributes),
          IF startswith(key, STR_AWS_) THEN instance_props
          ELSE [instance_props EXCEPT !.InstanceAttributes = DictSet(@, key, value)])

(***************************************************************************)
(* process_dns_config                                                      *)
(***************************************************************************)

\* variant: the zone name is looked for at the end of the hostname only
dns_hostname_suffix(namespace, resource, dns_settings) ==
  LET hostname == IF keyisset("Hostname", dns_settings)
                  THEN dns_settings["Hostname"]
                  ELSE resource.logical_name
      zone == namespace.zone_name
  IN  IF ~(Len(hostname) >= Len(zone)
           /\ SubSeq(hostname, Len(hostname) - Len(zone) + 1, Len(hostname)) = zone)
      THEN hostname \o STR_Dot \o zone
      ELSE hostname

\* lines 36-42: the name of the service
dns_hostname(namespace, resource, dns_settings) ==
  LET hostname == IF keyisset("Hostname", dns_settings)
                  THEN dns_settings["Hostname"]
                  ELSE resource.logical_name
  IN  IF ~contains(hostname, namespace.zone_name)
      THEN hostname \o STR_Dot \o namespace.zone_name
      ELSE hostname

process_dns_config(namespace, resource, dns_settings, settings, service, instance) ==
  LET hostname == dns_hostname(namespace, resource, dns_settings)
      record == [Type |-> "CNAME", TTL |-> "15"]
      config == [DnsRecords |-> <<record>>, NamespaceId |-> NoValue]
      service1 == setattr(setattr(service, "DnsConfig", config), "Name", hostname)
  IN
  IF "db_cluster_endpoint_param" \notin DOMAIN resource
  THEN [namespace |-> namespace, service |-> service1, instance |-> instance]
  ELSE
    LET attribute_pointer ==
          Lookup(resource.attributes_outputs, resource.db_cluster_endpoint_param)
    IN
    IF bool(resource.cfn_resource)
    THEN [namespace |->
            [namespace EXCEPT
               !.stack.stack_template =
                  add_parameters(@, <<attribute_pointer.ImportParameter>>),
               !.stack.Parameters =
                  DictSet(@, attribute_pointer.ImportParameter.title,
                          attribute_pointer.ImportValue)],
          service |-> service1,
          instance |->
            [instance EXCEPT !.properties.InstanceAttributes =
               DictSet(@, STR_AWS_INSTANCE_CNAME,
                       Ref(attribute_pointer.ImportParameter))]]
    ELSE [namespace |->
            [namespace EXCEPT
               !.stack.stack_template =
                  add_update_mapping(@, resource.mapping_key,
                                     settings.mappings[resource.mapping_key])],
          service |-> service1,
          instance |->
            [instance EXCEPT !.properties.InstanceAttributes =
               DictSet(@, STR_AWS_INSTANCE_CNAME, attribute_pointer.ImportValue)]]

(***************************************************************************)
(* handle_resource_cloudmap_settings                                       *)
(***************************************************************************)
\* what a call leaves behind: the namespace with its stack, the exception
\* raised if any, the messages sent to LOG and the local variables at the
\* end (returned: InstanceAttributes as process_return_values left them)
Outcome(namespace, raised, debug, warning, locals) ==
  [namespace |-> namespace, raised |-> raised, debug |-> debug,
   warning |-> warning, locals |-> locals]

\* lines 159: the title of the Service of a resource
service_title(resource) ==
  resource.module_name \o resource.logical_name \o STR_Service

\* lines 166-170
namespace_id_pointer(namespace) ==
  IF ~bool(namespace.cfn_resource)
  THEN namespace.attributes_outputs[PRIVATE_NAMESPACE_ID].ImportValue
  ELSE Ref(namespace.cfn_resource)

\* lines 207-209
dns_warning(resource) ==
  resource.module_name \o STR_Dot \o resource.name \o STR_NoDnsSupport

\* line 153: the block names another namespace
namespace_mismatch(namespace, cloudmap_settings) ==
  cloudmap_settings["Namespace"] # namespace.name


\* variant: the test of ForceRegister is not negated
lookup_with_force(resource, cloudmap_settings) ==
  ~bool(resource.cfn_resource) /\ keyisset("ForceRegister", cloudmap_settings)

\* line 156: a looked up resource that the block does not force to register
lookup_without_force(resource, cloudmap_settings) ==
  ~bool(resource.cfn_resource) /\ ~keyisset("ForceRegister", cloudmap_settings)


\* variant: the title looked for is built from the name of the resource
already_processed_by_name(namespace, resource) ==
  (resource.module_name \o resource.name \o STR_Service)
    \in DOMAIN namespace.stack.stack_template.resources

\* lines 159-160: the Service of the resource is in the template already
already_processed(namespace, resource) ==
  service_title(resource) \in DOMAIN namespace.stack.stack_template.resources


\* line 194: the DnsSettings are applied
dns_applied(resource, cloudmap_settings) ==
  keyisset("DnsSettings", cloudmap_settings) /\ resource.cloudmap_dns_supported

\* lines 204-206: the DnsSettings are refused with a warning
dns_refused(resource, cloudmap_settings) ==
  /\ ~dns_applied(resource, cloudmap_settings)
  /\ ~resource.cloudmap_dns_supported
  /\ keyisset("DnsSettings", cloudmap_settings)

\* lines 189-211: build the two objects, apply the DnsSettings, attach
register_service_instance(namespace, resource, cloudmap_settings, settings, service_props, returned_attrs, instance_attrs) ==
  LET resource_service_title == service_title(resource)
      resource_service == Service(resource_service_title, service_props)
      instance_props == [InstanceAttributes |-> instance_attrs,
                         ServiceId |-> Ref(resource_service)]
      resource_instance ==
        Instance(resource_service_title \o STR_Instance, instance_props)
      \* del service_props["Type"] acts on the dict, not on the Service
      \* that was built from its items on line 189
      service_props_end == IF dns_applied(resource, cloudmap_settings)
                           THEN DictDel(service_props, "Type")
                           ELSE service_props
      dns == IF dns_applied(resource, cloudmap_settings)
             THEN process_dns_config(namespace, resource,
                                     cloudmap_settings["DnsSettings"], settings,
                                     resource_service, resource_instance)
             ELSE [namespace |-> namespace, service |-> resource_service,
                   instance |-> resource_instance]
      warning == IF dns_refused(resource, cloudmap_settings)
                 THEN <<dns_warning(resource)>> ELSE <<>>
      \* instance_props["InstanceAttributes"] is the dict the Instance holds:
      \* what process_dns_config writes through instance.InstanceAttributes
      \* (lines 63, 72) shows in the local instance_props as well
      instance_props_end ==
        [instance_props EXCEPT
           !.InstanceAttributes = dns.instance.properties.InstanceAttributes]
      locals == [service_props |-> service_props_end,
                 returned |-> returned_attrs,
                 instance_props |-> instance_props_end,
                 resource_service |-> dns.service,
                 resource_instance |-> dns.instance]
      first == add_resource(dns.namespace.stack.stack_template, dns.service)
      second == add_resource(first.template, dns.instance)
  IN
  IF bool(first.raised)
  THEN Outcome(dns.namespace, first.raised, <<"PROCESSING IN HANDLER">>,
               warning, locals)
  ELSE Outcome([dns.namespace EXCEPT !.stack.stack_template = second.template],
               second.raised, <<"PROCESSING IN HANDLER">>, warning, locals)

handle_resource_cloudmap_settings(namespace, resource, cloudmap_settings, settings) ==
  IF namespace_mismatch(namespace, cloudmap_settings)
  THEN Outcome(namespace, None, <<"NAMESPACE DOES NOT MATCH">>, <<>>, EmptyDict)
  ELSE IF lookup_without_force(resource, cloudmap_settings)
  THEN Outcome(namespace, None, <<"LOOKUP AND NO FORCE">>, <<>>, EmptyDict)
  ELSE
    IF already_processed(namespace, resource)
    THEN Outcome(namespace, None, <<"ALREADY BEEN PROCESSED">>, <<>>, EmptyDict)
    ELSE
      LET service_props == [Description |-> resource.name,
                            NamespaceId |-> namespace_id_pointer(namespace),
                            Type |-> "HTTP"]
          instance_props == [InstanceAttributes |-> EmptyDict]
          returned ==
            IF keyisset("ReturnValues", cloudmap_settings)
            THEN process_return_values(namespace, resource,
                                       cloudmap_settings["ReturnValues"],
                                       instance_props, settings)
            ELSE [namespace |-> namespace, instance_props |-> instance_props,
                  raised |-> None]
      IN
      IF bool(returned.raised)
      THEN Outcome(returned.namespace, returned.raised,
                   <<"PROCESSING IN HANDLER">>, <<>>,
                   [service_props |-> service_props,
                    returned |-> returned.instance_props.InstanceAttributes,
                    instance_props |-> returned.instance_props])
      ELSE
        LET added ==
              IF keyisset("AdditionalAttributes", cloudmap_settings)
              THEN process_additional_attributes(
                     cloudmap_settings["AdditionalAttributes"],
                     returned.instance_props)
              ELSE returned.instance_props
        IN  register_service_instance(returned.namespace, resource,
                                      cloudmap_settings, settings, service_props,
                                      returned.instance_props.InstanceAttributes,
                                      added.InstanceAttributes)

(***************************************************************************)
(* The namespaces, resources and x-cloudmap blocks of the model            *)
(***************************************************************************)
STR_ns1 == <<"n","s","1">>
STR_ns2 == <<"n","s","2">>
STR_zone == <<"s","v","c">>
STR_rds == <<"r","d","s">>
STR_s3 == <<"s","3">>
STR_Endpoint == <<"E","n","d","p","o","i","n","t">>
STR_Port == <<"P","o","r","t">>
STR_EndpointPort == <<"E","n","d","p","o","i","n","t",".","P","o","r","t">>
STR_Arn == <<"A","r","n">>
STR_DB_ENDPOINT == <<"D","B","_","E","N","D","P","O","I","N","T">>
STR_TAG == <<"T","A","G">>

\* a str held as an instance attribute value; the other attribute values
\* are the troposphere expressions Ref, GetAtt and FindInMap
Str(s) == [str |-> s]

\* an empty stack: its template and its Parameters
EmptyStack ==
  [stack_template |-> [resources |-> EmptyDict, parameters |-> EmptyDict,
                       mappings |-> EmptyDict],
   Parameters |-> EmptyDict]

\* a PrivateNamespace, created in the template or looked up
Namespace(in_template) ==
  [name |-> STR_ns1,
   zone_name |-> STR_zone,
   cfn_resource |-> IF in_template THEN [title |-> STR_ns1] ELSE None,
   attributes_outputs |->
     (PRIVATE_NAMESPACE_ID :>
        [ImportValue |-> [FindInMap |-> <<STR_ns1, STR_ns1, <<"N","a","m","e","s","p","a","c","e","I","d">>>>]]),
   stack |-> EmptyStack]

\* the descriptor of one output of a resource
AttributePointer(mapping_key, logical_name, title, in_template) ==
  [ImportParameter |-> [title |-> logical_name \o title],
   ImportValue |-> IF in_template
                   THEN [GetAtt |-> <<logical_name, title>>]
                   ELSE [FindInMap |-> <<mapping_key, logical_name, title>>]]

\* a database x-resource: outputs Endpoint and Port, the second also known
\* by the return value Endpoint.Port
Database(logical_name, name, in_template, dns_supported) ==
  [module_name |-> STR_rds,
   logical_name |-> logical_name,
   name |-> name,
   cfn_resource |-> IF in_template THEN [title |-> logical_name] ELSE None,
   mapping_key |-> STR_rds,
   cloudmap_dns_supported |-> dns_supported,
   attributes_outputs |->
     << <<[title |-> STR_Endpoint, return_value |-> None],
          AttributePointer(STR_rds, logical_name, STR_Endpoint, in_template)>>,
        <<[title |-> STR_Port, return_value |-> STR_EndpointPort],
          AttributePointer(STR_rds, logical_name, STR_Port, in_template)>> >>]

\* the same, with the attribute db_cluster_endpoint_param
DatabaseCluster(logical_name, name, in_template, dns_supported) ==
  ("db_cluster_endpoint_param" :> [title |-> STR_Endpoint, return_value |-> None])
    @@ Database(logical_name, name, in_template, dns_supported)

\* logical name and name of the resources; the second logical name holds
\* the zone name
ResourceNames == { <<<<"d","b">>, <<"d","-","b">>>>, <<<<"d","b","s","v","c","1">>, <<"d","b","-","s","v","c","1">>>> }

Resources ==
  { Database(n[1], n[2], t, d) : n \in ResourceNames, t \in BOOLEAN, d \in BOOLEAN }
  \cup
  { DatabaseCluster(n[1], n[2], t, d) : n \in ResourceNames, t \in BOOLEAN, d \in BOOLEAN }

\* another resource of the same compose file, a bucket
Bucket(in_template) ==
  [module_name |-> STR_s3,
   logical_name |-> <<"b","k","t">>,
   name |-> <<"b","k","t">>,
   cfn_resource |-> IF in_template THEN [title |-> <<"b","k","t">>] ELSE None,
   mapping_key |-> STR_s3,
   cloudmap_dns_supported |-> FALSE,
   attributes_outputs |->
     << <<[title |-> STR_Arn, return_value |-> None],
          AttributePointer(STR_s3, <<"b","k","t">>, STR_Arn, in_template)>> >>]

BucketSettings ==
  [Namespace |-> STR_ns1, ForceRegister |-> TRUE,
   ReturnValues |-> << <<STR_Arn, <<"B","U","C","K","E","T","_","A","R","N">>>> >>]

\* settings.mappings: what the lookup of the resources found
LookupMappings ==
  (STR_rds :> ( (<<"d","b">> :> [Endpoint |-> <<"h">>, Port |-> <<"p">>])
                @@ (<<"d","b","s","v","c","1">> :> [Endpoint |-> <<"h">>, Port |-> <<"p">>]) ))
  @@ (STR_s3 :> (<<"b","k","t">> :> [Arn |-> <<"a">>]))

\* the entries of ReturnValues: the key is an output title (Endpoint), an
\* alternate return value (Endpoint.Port) or no output at all (Arn)
ReturnValuesEntries ==
  { <<STR_Endpoint, STR_DB_ENDPOINT>>, <<STR_Endpoint, STR_TAG>>,
    <<STR_EndpointPort, STR_TAG>>, <<STR_Arn, STR_DB_ENDPOINT>> }

\* the insertion-ordered dicts of at most n of the given entries
RECURSIVE OrderedDicts(_, _)
OrderedDicts(entries, n) ==
  IF n = 0 THEN {<<>>}
  ELSE LET shorter == OrderedDicts(entries, n - 1) IN
       shorter \cup
       { Append(d, e) :
           d \in {c \in shorter : Len(c) = n - 1},
           e \in entries }

DistinctKeys(d) == \A i, j \in 1..Len(d) : d[i][1] = d[j][1] => i = j

ReturnValuesBlocks ==
  {d \in OrderedDicts(ReturnValuesEntries, MaxReturnValues) : DistinctKeys(d)}

\* AdditionalAttributes: a key ReturnValues may have written for a looked up
\* resource, one it may have written for a resource of the template, and a
\* reserved one
AdditionalAttributesBlocks ==
  { <<>>,
    << <<STR_TAG, Str(<<"v","1">>)>> >>,
    << <<STR_Endpoint, Str(<<"v","2">>)>>, <<STR_AWS_INSTANCE_CNAME, Str(<<"v","3">>)>> >>,
    << <<STR_AWS_INSTANCE_CNAME, Str(<<"v","3">>)>>, <<STR_TAG, Str(<<"v","1">>)>>,
       <<<<"A","W","S">>, Str(<<"v","4">>)>> >> }

\* DnsSettings: {}, an empty Hostname, one without the zone, one with it
DnsSettingsBlocks ==
  { EmptyDict,
    [Hostname |-> <<>>],
    [Hostname |-> <<"a","p","i">>],
    [Hostname |-> <<"d","b",".","s","v","c">>] }

\* a dict over the optional keys, given the value None for each absent key
OptionalKeys(namespace_name, force, return_values, additional, dns) ==
  ("Namespace" :> namespace_name)
    @@ (IF force = None THEN EmptyDict ELSE "ForceRegister" :> force[1])
    @@ (IF return_values = None THEN EmptyDict ELSE "ReturnValues" :> return_values[1])
    @@ (IF additional = None THEN EmptyDict
        ELSE "AdditionalAttributes" :> additional[1])
    @@ (IF dns = None THEN EmptyDict ELSE "DnsSettings" :> dns[1])

\* None, or <<v>> for a key present with value v
Optional(S) == {None} \cup {<<v>> : v \in S}

CloudmapSettings ==
  { OptionalKeys(n, f, r, a, d) :
      n \in {STR_ns1, STR_ns2},
      f \in Optional({TRUE}),
      r \in Optional(ReturnValuesBlocks),
      a \in Optional(AdditionalAttributesBlocks \ {<<>>}),
      d \in Optional(DnsSettingsBlocks) }

(***************************************************************************)
(* State                                                                   *)
(***************************************************************************)
VARIABLES
  namespace,          \* the PrivateNamespace, with namespace.stack
  resource,           \* the x-resource of the compose file
  cloudmap_settings,  \* its x-cloudmap block
  settings,           \* ComposeXSettings: settings.mappings
  bucket,             \* another x-resource of the compose file and its block
  call                \* the last call: its arguments, the stack before it
                      \* and its outcome

vars == <<namespace, resource, cloudmap_settings, settings, bucket, call>>

Init ==
  /\ namespace \in {Namespace(t) : t \in BOOLEAN}
  /\ resource \in Resources
  /\ cloudmap_settings \in CloudmapSettings
  /\ settings = [mappings |-> LookupMappings]
  /\ bucket \in {[resource |-> Bucket(t), cloudmap_settings |-> BucketSettings] :
                   t \in BOOLEAN}
  /\ call = None

\* one call of handle_resource_cloudmap_settings
Call(res, cms) ==
  LET outcome == handle_resource_cloudmap_settings(namespace, res, cms, settings) IN
  /\ namespace' = outcome.namespace
  /\ call' = [resource |-> res,
              cloudmap_settings |-> cms,
              before |-> namespace.stack,
              raised |-> outcome.raised,
              debug |-> outcome.debug,
              warning |-> outcome.warning,
              locals |-> outcome.locals]
  /\ UNCHANGED <<resource, cloudmap_settings, settings, bucket>>

\* the resource of the compose file is handled for the namespace
Register == Call(resource, cloudmap_settings)

\* the bucket of the compose file is handled for the namespace
RegisterBucket == Call(bucket.resource, bucket.cloudmap_settings)

Next == Register \/ RegisterBucket

Spec == Init /\ [][Next]_vars

(***************************************************************************)
(* Vocabulary of the properties: the last call, stated on its arguments    *)
(***************************************************************************)
Called == bool(call)

\* the stack as the last call left it, and as it found it
TemplateNow == namespace.stack.stack_template
TemplateBefore == call.before.stack_template

\* the last call was the one of the resource of the compose file
IsRegister ==
  /\ Called
  /\ call.resource = resource
  /\ call.cloudmap_settings = cloudmap_settings

\* a key of the x-cloudmap block of the last call, present and truthy
Supplied(key) == key \in DOMAIN call.cloudmap_settings

Truthy(key) ==
  /\ Supplied(key)
  /\ IF key = "ForceRegister" THEN call.cloudmap_settings[key]
     ELSE call.cloudmap_settings[key] # <<>>

InTemplate(res) == DOMAIN res.cfn_resource # {}

ServiceTitleOf(res) == res.module_name \o res.logical_name \o STR_Service
InstanceTitleOf(res) == ServiceTitleOf(res) \o STR_Instance

\* the two skip conditions on the arguments, and the third on the template
NamespaceDiffers == call.cloudmap_settings["Namespace"] # namespace.name
LookupNotForced == ~InTemplate(call.resource) /\ ~Truthy("ForceRegister")
PassedSkipChecks ==
  /\ Called
  /\ ~NamespaceDiffers
  /\ ~LookupNotForced
  /\ ServiceTitleOf(call.resource) \notin DOMAIN TemplateBefore.resources

\* the ReturnValues of the last call, in iteration order
ReturnValuesOf == IF Truthy("ReturnValues") THEN call.cloudmap_settings["ReturnValues"]
                  ELSE <<>>

AdditionalAttributesOf ==
  IF Truthy("AdditionalAttributes")
  THEN call.cloudmap_settings["AdditionalAttributes"] ELSE <<>>

\* the outputs of a resource that a ReturnValues key designates
OutputsFor(res, key) ==
  {i \in 1..Len(res.attributes_outputs) :
     LET p == res.attributes_outputs[i][1] IN
       p.title = key \/ (p.return_value # <<>> /\ p.return_value = key)}

DescriptorFor(res, key) ==
  res.attributes_outputs[CHOOSE i \in OutputsFor(res, key) :
                           \A j \in OutputsFor(res, key) : i <= j][2]

\* positions of the ReturnValues keys that designate no output; the entries
\* iterated before the first of them (all of them when there is none)
Unmatched ==
  {i \in 1..Len(ReturnValuesOf) : OutputsFor(call.resource, ReturnValuesOf[i][1]) = {}}

Iterated ==
  {i \in 1..Len(ReturnValuesOf) : \A u \in Unmatched : i < u}

\* the last call went through: it was not skipped and it raised nothing
Completed == PassedSkipChecks /\ ~bool(call.raised)

FailedLookup == Called /\ bool(call.raised) /\ call.raised.type = "KeyError"

\* the objects the last call attached
AttachedService == TemplateNow.resources[ServiceTitleOf(call.resource)]
AttachedInstance == TemplateNow.resources[InstanceTitleOf(call.resource)]
AttachedAttributes == AttachedInstance.properties.InstanceAttributes

(***************************************************************************)
(* C1                                                                      *)
(***************************************************************************)
\* C1: when a call completes without error, the next call with the same
\* resource and the same x-cloudmap block returns without error and leaves
\* the stack (resources, parameters, stack inputs, mappings) and the lookup
\* mappings of the settings as the first call left them
Thm_C1_SecondCallIsNoOp ==
  [][ ( /\ bool(call) /\ ~bool(call.raised)
        /\ bool(call')
        /\ call'.resource = call.resource
        /\ call'.cloudmap_settings = call.cloudmap_settings )
      => ( /\ namespace'.stack = namespace.stack
           /\ settings' = settings
           /\ ~bool(call'.raised) ) ]_vars

\* a second call found the Service of the first one and did nothing
Witness_C1 ==
  /\ IsRegister
  /\ ~bool(call.raised)
  /\ call.debug = <<"ALREADY BEEN PROCESSED">>
  /\ ServiceTitleOf(resource) \in DOMAIN TemplateNow.resources
  /\ InstanceTitleOf(resource) \in DOMAIN TemplateNow.resources
  /\ DOMAIN TemplateNow.parameters # {}

(***************************************************************************)
(* C2                                                                      *)
(***************************************************************************)
\* C2: a call whose block names another namespace, or whose resource is
\* looked up and not force-registered, raises nothing and leaves the stack
\* (resources, parameters, stack inputs, mappings) as it was, whatever else
\* the block holds
Thm_C2_SkipsMutateNothing ==
  (Called /\ (NamespaceDiffers \/ LookupNotForced))
    => /\ ~bool(call.raised)
       /\ namespace.stack = call.before

\* a skipped call on a stack that holds the bucket's registration, with a
\* ReturnValues key that matches no output
Witness_C2 ==
  /\ IsRegister
  /\ LookupNotForced
  /\ ~NamespaceDiffers
  /\ Unmatched # {}
  /\ Truthy("DnsSettings")
  /\ DOMAIN call.before.stack_template.resources # {}
  /\ DOMAIN call.before.stack_template.mappings # {}

(***************************************************************************)
(* C3                                                                      *)
(***************************************************************************)
\* C3: for every ReturnValues entry that was iterated and matched: when the
\* resource is in the template, the ImportParameter of the matched output is
\* declared on the template, the stack input ImportParameter.title ->
\* ImportValue is recorded, an instance attribute is the Ref of that
\* parameter and the mappings of the template are untouched; when the
\* resource is looked up, the template holds the lookup mapping of the
\* resource under resource.mapping_key, the attribute written for the entry
\* is the ImportValue itself, and no parameter and no stack input is added
Thm_C3_ParameterVersusLookup ==
  PassedSkipChecks =>
    \A i \in Iterated :
      LET entry == ReturnValuesOf[i]
          pointer == DescriptorFor(call.resource, entry[1])
          title == pointer.ImportParameter.title
          returned == call.locals.returned
          rewritten == \E j \in Iterated : j > i /\ ReturnValuesOf[j][2] = entry[2]
          key == call.resource.mapping_key
      IN  IF InTemplate(call.resource)
          THEN /\ title \in DOMAIN TemplateNow.parameters
               /\ TemplateNow.parameters[title] = pointer.ImportParameter
               /\ title \in DOMAIN namespace.stack.Parameters
               /\ namespace.stack.Parameters[title] = pointer.ImportValue
               /\ \E a \in DOMAIN returned : returned[a] = [Ref |-> title]
               /\ TemplateNow.mappings = TemplateBefore.mappings
          ELSE /\ key \in DOMAIN TemplateNow.mappings
               /\ \A n \in DOMAIN settings.mappings[key] :
                    /\ n \in DOMAIN TemplateNow.mappings[key]
                    /\ TemplateNow.mappings[key][n] = settings.mappings[key][n]
               /\ rewritten \/ \E a \in DOMAIN returned :
                                  returned[a] = pointer.ImportValue
               /\ TemplateNow.parameters = TemplateBefore.parameters
               /\ namespace.stack.Parameters = call.before.Parameters

\* a looked up, force-registered resource whose two ReturnValues entries were
\* resolved on a stack that already declares a parameter
Witness_C3 ==
  /\ IsRegister
  /\ Completed
  /\ ~InTemplate(call.resource)
  /\ Cardinality(Iterated) = 2
  /\ DOMAIN TemplateBefore.parameters # {}
  /\ resource.mapping_key \notin DOMAIN TemplateBefore.mappings
  /\ resource.mapping_key \in DOMAIN TemplateNow.mappings

(***************************************************************************)
(* C4                                                                      *)
(***************************************************************************)
\* an attribute name that AdditionalAttributes or the DnsSettings write
\* after ReturnValues
WrittenLater(name) ==
  \/ \E i \in 1..Len(AdditionalAttributesOf) : AdditionalAttributesOf[i][1] = name
  \/ name = STR_AWS_INSTANCE_CNAME

\* C4: in a completed call, every ReturnValues entry outputKey ->
\* attributeName puts the resolved value of the output under attributeName
\* in the attributes of the Instance (the Ref of the import parameter for a
\* resource of the template, the ImportValue for a looked up one), unless a
\* later entry or a later step writes that name again
Cex_C4_AttributeNamedByValue ==
  Completed =>
    \A i \in 1..Len(ReturnValuesOf) :
      LET entry == ReturnValuesOf[i]
          pointer == DescriptorFor(call.resource, entry[1])
          rewritten == \E j \in 1..Len(ReturnValuesOf) :
                          j > i /\ ReturnValuesOf[j][2] = entry[2]
      IN  (~rewritten /\ ~WrittenLater(entry[2])) =>
            /\ entry[2] \in DOMAIN AttachedAttributes
            /\ AttachedAttributes[entry[2]] =
                 IF InTemplate(call.resource)
                 THEN [Ref |-> pointer.ImportParameter.title]
                 ELSE pointer.ImportValue

(***************************************************************************)
(* C5                                                                      *)
(***************************************************************************)
\* sub occurs in s
Occurs(sub, s) ==
  \E i \in 1..(Len(s) - Len(sub) + 1) :
    \A j \in 1..Len(sub) : s[i + j - 1] = sub[j]

\* C5: a call that passes the three skip checks and has a ReturnValues key
\* that is neither the title nor the non-empty return value of an output
\* raises a KeyError whose message names the module, the resource and the
\* first such key and whose second argument lists the titles of the outputs,
\* and attaches neither Service nor Instance; a call whose keys all match by
\* title or by return value does not raise it
Thm_C5_UnmatchedKeyRaises ==
  /\ (PassedSkipChecks /\ Unmatched # {}) =>
       LET first == CHOOSE u \in Unmatched : \A v \in Unmatched : u <= v
           outputs == call.resource.attributes_outputs
       IN  /\ FailedLookup
           /\ Occurs(call.resource.module_name \o STR_Dot \o call.resource.name,
                     call.raised.args[1])
           /\ Occurs(ReturnValuesOf[first][1], call.raised.args[1])
           /\ call.raised.args[2] = [i \in 1..Len(outputs) |-> outputs[i][1].title]
           /\ TemplateNow.resources = TemplateBefore.resources
           /\ ServiceTitleOf(call.resource) \notin DOMAIN TemplateNow.resources
           /\ InstanceTitleOf(call.resource) \notin DOMAIN TemplateNow.resources
  /\ (PassedSkipChecks /\ Unmatched = {}) => ~FailedLookup

\* the KeyError was raised for the second key, after a key that matches by
\* its alternate return value
Witness_C5 ==
  /\ IsRegister
  /\ FailedLookup
  /\ Len(ReturnValuesOf) = 2
  /\ ReturnValuesOf[1][1] = STR_EndpointPort
  /\ Unmatched = {2}

(***************************************************************************)
(* C6                                                                      *)
(***************************************************************************)
Reserved(key) ==
  /\ Len(key) >= 4
  /\ key[1] = "A" /\ key[2] = "W" /\ key[3] = "S" /\ key[4] = "_"

\* C6: in the Instance a completed call attached, no AdditionalAttributes
\* entry whose key starts with AWS_ has its value under its key, and every
\* other entry k -> v is there as k -> v
Thm_C6_ReservedPrefixFiltered ==
  Completed =>
    \A i \in 1..Len(AdditionalAttributesOf) :
      LET key == AdditionalAttributesOf[i][1]
          value == AdditionalAttributesOf[i][2]
      IN  IF Reserved(key)
          THEN ~(key \in DOMAIN AttachedAttributes /\ AttachedAttributes[key] = value)
          ELSE key \in DOMAIN AttachedAttributes /\ AttachedAttributes[key] = value

\* ReturnValues wrote Endpoint first, AdditionalAttributes has Endpoint and
\* AWS_INSTANCE_CNAME, and the DnsSettings wrote AWS_INSTANCE_CNAME last
Witness_C6 ==
  /\ IsRegister
  /\ Completed
  /\ STR_Endpoint \in DOMAIN call.locals.returned
  /\ \E i \in 1..Len(AdditionalAttributesOf) : AdditionalAttributesOf[i][1] = STR_Endpoint
  /\ \E i \in 1..Len(AdditionalAttributesOf) :
       AdditionalAttributesOf[i][1] = STR_AWS_INSTANCE_CNAME
  /\ STR_AWS_INSTANCE_CNAME \in DOMAIN AttachedAttributes
  /\ "DnsConfig" \in DOMAIN AttachedService.properties

(***************************************************************************)
(* C7, C8, C9: the DnsSettings                                             *)
(***************************************************************************)
DnsSettingsOf == call.cloudmap_settings["DnsSettings"]

\* the hostname the block asks for, and the name it gives in the zone
HostnameAsked ==
  IF "Hostname" \in DOMAIN DnsSettingsOf /\ DnsSettingsOf["Hostname"] # <<>>
  THEN DnsSettingsOf["Hostname"]
  ELSE call.resource.logical_name

NameInZone ==
  IF Occurs(namespace.zone_name, HostnameAsked) THEN HostnameAsked
  ELSE HostnameAsked \o STR_Dot \o namespace.zone_name

\* both objects of the resource are in the template
PairAttached ==
  /\ ServiceTitleOf(call.resource) \in DOMAIN TemplateNow.resources
  /\ InstanceTitleOf(call.resource) \in DOMAIN TemplateNow.resources

\* C7: when DnsSettings is supplied (the key is in the block) and the
\* resource supports DNS, the Service attached has no Type, has DnsConfig
\* set to one CNAME record of TTL 15 with no namespace id of its own, and has
\* the computed hostname as Name
Cex_C7_DnsServiceHasNoType ==
  (Completed /\ Supplied("DnsSettings") /\ call.resource.cloudmap_dns_supported) =>
    /\ PairAttached
    /\ "Type" \notin DOMAIN AttachedService.properties
    /\ "DnsConfig" \in DOMAIN AttachedService.properties
    /\ AttachedService.properties["DnsConfig"] =
         [DnsRecords |-> <<[Type |-> "CNAME", TTL |-> "15"]>>, NamespaceId |-> NoValue]
    /\ "Name" \in DOMAIN AttachedService.properties
    /\ AttachedService.properties["Name"] = NameInZone

\* what holds of a completed call whose DnsSettings were not applied
DnsIgnored ==
  /\ PairAttached
  /\ "Type" \in DOMAIN AttachedService.properties
  /\ AttachedService.properties["Type"] = "HTTP"
  /\ "DnsConfig" \notin DOMAIN AttachedService.properties
  /\ "Name" \notin DOMAIN AttachedService.properties
  /\ AttachedInstance.properties = call.locals.instance_props
  /\ STR_AWS_INSTANCE_CNAME \notin DOMAIN AttachedAttributes

WarningNamesResource ==
  /\ Len(call.warning) = 1
  /\ Occurs(call.resource.module_name \o STR_Dot \o call.resource.name,
            call.warning[1])

\* C8: whenever the block has the key DnsSettings (an empty block
\* DnsSettings: {} included) and the resource does not support DNS, a
\* warning naming the module and the resource is emitted and the pair is
\* attached with Type HTTP, without DnsConfig, Name or AWS_INSTANCE_CNAME.
\* Line 204 tests keyisset("DnsSettings", ...), false for an empty block:
\* the pair is attached as described but nothing is logged.
Cex_C8_WarningWheneverSupplied ==
  (Completed /\ Supplied("DnsSettings") /\ ~call.resource.cloudmap_dns_supported) =>
    /\ WarningNamesResource
    /\ DnsIgnored

\* C9: the Name of the Service is the hostname asked for (Hostname when
\* present and not empty, else the logical name) when the zone name occurs
\* anywhere in it, and that hostname, a dot and the zone name otherwise
Thm_C9_HostnameInZone ==
  (Completed /\ Truthy("DnsSettings") /\ call.resource.cloudmap_dns_supported) =>
    /\ "Name" \in DOMAIN AttachedService.properties
    /\ AttachedService.properties["Name"] = NameInZone

\* no Hostname to use, and a logical name that holds the zone name before
\* its end: the Name is the logical name
Witness_C9 ==
  /\ IsRegister
  /\ Completed
  /\ Truthy("DnsSettings")
  /\ resource.cloudmap_dns_supported
  /\ HostnameAsked = resource.logical_name
  /\ Occurs(namespace.zone_name, resource.logical_name)
  /\ AttachedService.properties["Name"] = resource.logical_name

(***************************************************************************)
(* C10                                                                     *)
(***************************************************************************)
\* C10 as stated: a call that raises raises the lookup error and leaves the
\* stack as it found it
Cex_C10_FailureLeavesStackUntouched ==
  (Called /\ bool(call.raised)) =>
    /\ FailedLookup
    /\ namespace.stack = call.before

\* the import parameters of the entries iterated before the unmatched key
IteratedTitles ==
  {DescriptorFor(call.resource, ReturnValuesOf[i][1]).ImportParameter.title :
     i \in Iterated}

\* C10, amended: a call that fails with the lookup error attaches nothing,
\* but keeps what the entries iterated before the unmatched key added: their
\* import parameters and stack inputs for a resource of the template, the
\* lookup mapping for a looked up resource; the stack is as before only when
\* the unmatched key is the first one.  A call that completes attaches the
\* pair and has the import parameter of every entry declared.
Thm_C10_FailureKeepsEarlierEntries ==
  /\ FailedLookup =>
       /\ TemplateNow.resources = TemplateBefore.resources
       /\ IF InTemplate(call.resource)
          THEN /\ DOMAIN TemplateNow.parameters =
                    DOMAIN TemplateBefore.parameters \cup IteratedTitles
               /\ DOMAIN namespace.stack.Parameters =
                    DOMAIN call.before.Parameters \cup IteratedTitles
               /\ \A t \in DOMAIN TemplateBefore.parameters :
                    TemplateNow.parameters[t] = TemplateBefore.parameters[t]
               /\ TemplateNow.mappings = TemplateBefore.mappings
          ELSE /\ TemplateNow.parameters = TemplateBefore.parameters
               /\ namespace.stack.Parameters = call.before.Parameters
               /\ DOMAIN TemplateNow.mappings =
                    DOMAIN TemplateBefore.mappings
                      \cup (IF Iterated = {} THEN {} ELSE {call.resource.mapping_key})
               /\ \A k \in DOMAIN TemplateBefore.mappings :
                    k # call.resource.mapping_key =>
                      TemplateNow.mappings[k] = TemplateBefore.mappings[k]
       /\ (Iterated = {}) => namespace.stack = call.before
  /\ Completed =>
       /\ PairAttached
       /\ InTemplate(call.resource) =>
            /\ IteratedTitles \subseteq DOMAIN TemplateNow.parameters
            /\ IteratedTitles \subseteq DOMAIN namespace.stack.Parameters

\* the lookup error came after an entry that had declared its parameter
Witness_C10 ==
  /\ IsRegister
  /\ FailedLookup
  /\ InTemplate(resource)
  /\ Iterated # {}
  /\ namespace.stack # call.before
  /\ ServiceTitleOf(resource) \notin DOMAIN TemplateNow.resources

====
